---- MODULE Spec2Model ----
(***************************************************************************)
(* Model of the Todo API backend (FastAPI handlers over SQLite).           *)
(*                                                                         *)
(*   src/todo_backend/src/api/models.py   request / response validation    *)
(*   src/todo_backend/src/api/db.py       connection scope, schema         *)
(*   src/todo_backend/src/api/main.py     the handlers                     *)
(*                                                                         *)
(* The store is the committed content of table todos plus the AUTOINCREMENT*)
(* high-water mark.  get_db() opens a sqlite3 connection with the default  *)
(* isolation level: a transaction is opened implicitly by the first        *)
(* INSERT/UPDATE/DELETE and not by a SELECT.  A handler's leading SELECT   *)
(* therefore runs on its own, and everything from its first write to the   *)
(* commit in get_db() runs under the database write lock.  Each such       *)
(* locked block is one action here; the SELECT before it is another.       *)
(* Waiting for the write lock is not modelled as a failure.                *)
(*                                                                         *)
(* Timestamps are datetime('now') strings 'YYYY-MM-DD HH:MM:SS'; they are  *)
(* modelled by the number of seconds they denote (their order as strings   *)
(* is the order of those numbers).                                         *)
(*                                                                         *)
(* A string is kept run-length encoded: a sequence of runs [ch, n], n >= 1,*)
(* neighbouring runs of different characters.  Length and strip() are      *)
(* computed on the runs exactly as on the characters they stand for.       *)
(***************************************************************************)
EXTENDS Integers, Sequences, FiniteSets, TLC

\* ---------------------------------------------------------------- bounds
NumProcs == 2        \* connections that can be inside a two-statement handler
MaxTodos == 2        \* rows ever inserted
MaxClock == 1        \* seconds the store clock can advance
MaxPad == 1          \* whitespace characters around a padded title

\* ------------------------------------------------------ program constants
MinLength == 1
MaxLength == 255

VARIABLES
    todos,      \* table todos as committed: id -> row
    seq,        \* sqlite_sequence: the largest id ever assigned
    clock,      \* datetime('now')
    pc,         \* per connection: "idle", or "write" between SELECT and UPDATE
    req,        \* per connection: todo_id, params and new_completed in hand
    resp,       \* the response sent last
    deleted,    \* history: the ids whose DELETE was answered 204
    expect      \* history: per id, completed as set by the create or update
                \* committed last and flipped by every toggle committed since

vars == <<todos, seq, clock, pc, req, resp, deleted, expect>>

Procs == 1..NumProcs
Ids == 1..MaxTodos

\* ------------------------------------------------------------ values
None == [some |-> FALSE]
Some(v) == [some |-> TRUE, val |-> v]

\* the string of n characters c
Rep(c, n) == IF n = 0 THEN <<>> ELSE <<[ch |-> c, n |-> n]>>

\* len(s)
RECURSIVE StrLen(_)
StrLen(s) == IF s = <<>> THEN 0 ELSE Head(s).n + StrLen(Tail(s))

IsSpace(c) == c = " "

\* str.strip(): drop the leading and the trailing whitespace
Strip(s) ==
    LET a == IF s /= <<>> /\ IsSpace(Head(s).ch) THEN Tail(s) ELSE s
    IN  IF a /= <<>> /\ IsSpace(a[Len(a)].ch) THEN SubSeq(a, 1, Len(a) - 1) ELSE a

\* Field(min_length=1, max_length=255), applied to the string as received
LengthOK(s) == StrLen(s) >= MinLength /\ StrLen(s) <= MaxLength

\* TodoCreate: title required and within length; completed defaults to False
ValidCreate(body) == body.title.some /\ LengthOK(body.title.val)

\* TodoUpdate: both fields optional; a supplied title within length
ValidUpdate(body) == body.title.some => LengthOK(body.title.val)

\* 1 if x else 0
ToInt(b) == IF b THEN 1 ELSE 0

\* bool(row["completed"])
ToBool(i) == i /= 0

\* the dict a handler builds from a fetched row
RowOut(id, r) ==
    [id |-> id, title |-> r.title, completed |-> ToBool(r.completed),
     created_at |-> r.created_at, updated_at |-> r.updated_at]

\* response_model=TodoOut: the returned title must again satisfy TodoBase
ResponseValid(out) == LengthOK(out.title)

\* ------------------------------------------------------------ statements
\* SELECT ... FROM todos WHERE id = ?  followed by fetchone()
SelectById(t, id) == IF id \in DOMAIN t THEN Some(RowOut(id, t[id])) ELSE None

RECURSIVE DescSeq(_)
DescSeq(S) ==
    IF S = {} THEN <<>>
    ELSE LET m == CHOOSE x \in S : \A y \in S : y <= x
         IN  <<m>> \o DescSeq(S \ {m})

\* SELECT ... FROM todos ORDER BY id DESC  followed by fetchall()
SelectAll(t) ==
    LET order == DescSeq(DOMAIN t)
    IN  [i \in 1..Len(order) |-> RowOut(order[i], t[order[i]])]

\* a rowid without AUTOINCREMENT: one more than the largest id now in the table
NextIdReuse(t, s) ==
    IF DOMAIN t = {} THEN 1
    ELSE (CHOOSE x \in DOMAIN t : \A y \in DOMAIN t : y <= x) + 1

\* INTEGER PRIMARY KEY AUTOINCREMENT: one more than the largest id ever used
NextId(t, s) == s + 1

\* INSERT INTO todos (title, completed) VALUES (?, ?); both timestamps default
\* to datetime('now') of the same statement
Insert(t, id, title, completed, now) ==
    [i \in DOMAIN t \cup {id} |->
        IF i = id
        THEN [title |-> title, completed |-> completed,
              created_at |-> now, updated_at |-> now]
        ELSE t[i]]

\* the UPDATE with a completed left out written as 0
UpdateStmtAllFields(t, id, title, completed, now) ==
    IF id \notin DOMAIN t THEN t
    ELSE [t EXCEPT ![id] =
            [title |-> IF title.some THEN title.val ELSE @.title,
             completed |-> IF completed.some THEN completed.val ELSE 0,
             created_at |-> @.created_at,
             updated_at |-> now]]

\* the UPDATE refreshing created_at in place of updated_at
UpdateStmtWrongColumn(t, id, title, completed, now) ==
    IF id \notin DOMAIN t THEN t
    ELSE [t EXCEPT ![id] =
            [title |-> IF title.some THEN title.val ELSE @.title,
             completed |-> IF completed.some THEN completed.val ELSE @.completed,
             created_at |-> now,
             updated_at |-> @.updated_at]]

\* UPDATE todos SET [title = ?,] [completed = ?,] updated_at = datetime('now')
\* WHERE id = ?     (no row matches: nothing changes)
UpdateStmt(t, id, title, completed, now) ==
    IF id \notin DOMAIN t THEN t
    ELSE [t EXCEPT ![id] =
            [title |-> IF title.some THEN title.val ELSE @.title,
             completed |-> IF completed.some THEN completed.val ELSE @.completed,
             created_at |-> @.created_at,
             updated_at |-> now]]

\* DELETE FROM todos WHERE id = ?
DeleteStmt(t, id) == [i \in DOMAIN t \ {id} |-> t[i]]

\* cur.rowcount of the DELETE
RowCount(t, id) == IF id \in DOMAIN t THEN 1 ELSE 0

\* ------------------------------------------------------------ responses
Response(op, id, status, row, rows) ==
    [op |-> op, id |-> id, status |-> status, row |-> row, rows |-> rows]

\* a handler returned `out`: FastAPI validates it against TodoOut; a failure
\* is an unhandled ResponseValidationError (500)
RowStatus(out, ok) == IF ResponseValid(out) THEN ok ELSE 500

\* get_todo's outcome in store t: <<status, row>>
GetResult(t, id) ==
    LET r == SelectById(t, id)
    IN  IF ~r.some THEN <<404, None>>
        ELSE IF ResponseValid(r.val) THEN <<200, r>> ELSE <<500, None>>

\* list_todos's outcome in store t: <<status, rows>>
ListResult(t) ==
    LET rows == SelectAll(t)
    IN  IF \A i \in 1..Len(rows) : ResponseValid(rows[i])
        THEN <<200, rows>> ELSE <<500, <<>> >>

\* update_todo looking the row up before it looks at the fields
UpdateEarlyLookupFirst(t, id, body) ==
    IF ~ValidUpdate(body) THEN 422
    ELSE IF ~SelectById(t, id).some THEN 404
    ELSE IF ~body.title.some /\ ~body.completed.some THEN 400
    ELSE 0

\* update_todo up to its existence check: the status it answers with at once,
\* or 0 when it goes on to the UPDATE
UpdateEarly(t, id, body) ==
    IF ~ValidUpdate(body) THEN 422
    ELSE IF ~body.title.some /\ ~body.completed.some THEN 400
    ELSE IF ~SelectById(t, id).some THEN 404
    ELSE 0

\* update_todo's params: the stripped title and the 0/1 flag, where supplied
UpdateReq(id, body) ==
    [op |-> "update", id |-> id,
     title |-> IF body.title.some THEN Some(Strip(body.title.val)) ELSE None,
     completed |-> IF body.completed.some
                   THEN Some(ToInt(body.completed.val)) ELSE None]

\* toggle_todo's SELECT of completed and its new_completed
ToggleReq(t, id) ==
    [op |-> "toggle", id |-> id, title |-> None,
     completed |-> Some(IF ToBool(t[id].completed) THEN 0 ELSE 1)]

NoReq == [op |-> "none", id |-> 0, title |-> None, completed |-> None]

\* ------------------------------------------------------------ inputs
Titles ==
    { <<>>,
      Rep(" ", MaxPad),
      Rep("a", 1),
      Rep(" ", MaxPad) \o Rep("a", 1) \o Rep(" ", MaxPad),
      Rep("a", MaxLength),
      Rep(" ", MaxPad) \o Rep("a", MaxLength),
      Rep("a", MaxLength + 1) }

\* the titles sent while the store clock advances
ClockTitles ==
    { Rep(" ", MaxPad),
      Rep(" ", MaxPad) \o Rep("a", 1) \o Rep(" ", MaxPad) }

\* the titles of requests that are in flight together
ConcTitles == { Rep("a", 1), Rep("b", 1) }

\* a JSON field that may be left out
Opt(S) == {None} \cup {Some(x) : x \in S}

Bodies == [title : Opt(Titles), completed : Opt(BOOLEAN)]
ClockBodies == [title : Opt(ClockTitles), completed : Opt(BOOLEAN)]
ConcBodies == [title : Opt(ConcTitles), completed : Opt(BOOLEAN)]

Init ==
    /\ todos = <<>>
    /\ seq = 0
    /\ clock = 0
    /\ pc = [p \in Procs |-> "idle"]
    /\ req = [p \in Procs |-> NoReq]
    /\ resp = Response("none", 0, 0, None, <<>>)
    /\ deleted = {}
    /\ expect = <<>>

\* the store clock: datetime('now') never goes backwards
Tick ==
    /\ clock < MaxClock
    /\ clock' = clock + 1
    /\ UNCHANGED <<todos, seq, pc, req, resp, deleted, expect>>

\* ------------------------------------------------------------ handlers
\* GET /todos
ListTodos ==
    LET res == ListResult(todos)
    IN  /\ resp' = Response("list", 0, res[1], None, res[2])
        /\ UNCHANGED <<todos, seq, clock, pc, req, deleted, expect>>

\* POST /todos
CreateTodo(body) ==
    IF ~ValidCreate(body)
    THEN /\ resp' = Response("create", 0, 422, None, <<>>)
         /\ UNCHANGED <<todos, seq, clock, pc, req, deleted, expect>>
    ELSE LET id == NextId(todos, seq)
             c == IF body.completed.some THEN body.completed.val ELSE FALSE
             t1 == Insert(todos, id, Strip(body.title.val), ToInt(c), clock)
             r == SelectById(t1, id)
             st == RowStatus(r.val, 201)
         IN  /\ id <= MaxTodos
             /\ todos' = t1
             /\ seq' = IF id > seq THEN id ELSE seq
             /\ expect' = [i \in DOMAIN expect \cup {id} |->
                              IF i = id THEN c ELSE expect[i]]
             /\ resp' = Response("create", id, st,
                                 IF st = 201 THEN r ELSE None, <<>>)
             /\ UNCHANGED <<clock, pc, req, deleted>>

\* GET /todos/{todo_id}
GetTodo(id) ==
    LET res == GetResult(todos, id)
    IN  /\ resp' = Response("get", id, res[1], res[2], <<>>)
        /\ UNCHANGED <<todos, seq, clock, pc, req, deleted, expect>>

\* update_todo / toggle_todo from the UPDATE on, for the request q: the
\* UPDATE, the re-read, then the commit and the response, or the TypeError
\* on a missing row (row["id"] of None), the rollback and the 500
Write(q) ==
    LET t1 == UpdateStmt(todos, q.id, q.title, q.completed, clock)
        r == SelectById(t1, q.id)
        st == IF r.some THEN RowStatus(r.val, 200) ELSE 500
    IN  /\ todos' = IF r.some THEN t1 ELSE todos
        /\ expect' = IF ~r.some THEN expect
                     ELSE IF q.op = "toggle" THEN [expect EXCEPT ![q.id] = ~@]
                     ELSE IF q.completed.some
                          THEN [expect EXCEPT ![q.id] = ToBool(q.completed.val)]
                     ELSE expect
        /\ resp' = Response(q.op, q.id, st, IF st = 200 THEN r ELSE None, <<>>)
        /\ UNCHANGED <<seq, clock, deleted>>

\* PATCH /todos/{todo_id}, answered before another request is handled
UpdateTodo(id, body) ==
    LET early == UpdateEarly(todos, id, body)
    IN  /\ IF early /= 0
           THEN /\ resp' = Response("update", id, early, None, <<>>)
                /\ UNCHANGED <<todos, seq, clock, deleted, expect>>
           ELSE Write(UpdateReq(id, body))
        /\ UNCHANGED <<pc, req>>

\* POST /todos/{todo_id}/toggle, answered before another request is handled
ToggleTodo(id) ==
    /\ IF id \notin DOMAIN todos
       THEN /\ resp' = Response("toggle", id, 404, None, <<>>)
            /\ UNCHANGED <<todos, seq, clock, deleted, expect>>
       ELSE Write(ToggleReq(todos, id))
    /\ UNCHANGED <<pc, req>>

\* DELETE /todos/{todo_id}
DeleteTodo(id) ==
    LET found == RowCount(todos, id) /= 0
    IN  /\ todos' = IF found THEN DeleteStmt(todos, id) ELSE todos
        /\ deleted' = IF found THEN deleted \cup {id} ELSE deleted
        /\ resp' = Response("delete", id, IF found THEN 204 ELSE 404, None, <<>>)
        /\ UNCHANGED <<seq, clock, pc, req, expect>>

\* ---- the same handlers on connection p, other requests running between
\* ---- their statements
Idle(p) == pc[p] = "idle"

\* update_todo: validation, the 400 check and the existence SELECT
UpdateBegin(p, id, body) ==
    LET early == UpdateEarly(todos, id, body)
    IN  /\ Idle(p)
        /\ IF early /= 0
           THEN /\ resp' = Response("update", id, early, None, <<>>)
                /\ UNCHANGED <<pc, req>>
           ELSE /\ pc' = [pc EXCEPT ![p] = "write"]
                /\ req' = [req EXCEPT ![p] = UpdateReq(id, body)]
                /\ UNCHANGED resp
        /\ UNCHANGED <<todos, seq, clock, deleted, expect>>

\* toggle_todo: the SELECT of completed
ToggleBegin(p, id) ==
    /\ Idle(p)
    /\ IF id \notin DOMAIN todos
       THEN /\ resp' = Response("toggle", id, 404, None, <<>>)
            /\ UNCHANGED <<pc, req>>
       ELSE /\ pc' = [pc EXCEPT ![p] = "write"]
            /\ req' = [req EXCEPT ![p] = ToggleReq(todos, id)]
            /\ UNCHANGED resp
    /\ UNCHANGED <<todos, seq, clock, deleted, expect>>

\* update_todo / toggle_todo: the UPDATE, the re-read, the end of get_db()
WriteEnd(p) ==
    /\ pc[p] = "write"
    /\ Write(req[p])
    /\ pc' = [pc EXCEPT ![p] = "idle"]
    /\ req' = [req EXCEPT ![p] = NoReq]

\* ------------------------------------------------------------ specifications
\* one client, a request sent after the previous one was answered, all
\* within one second of the store clock
Create == \E body \in Bodies : CreateTodo(body)
Get == \E id \in Ids : GetTodo(id)
Update == \E id \in Ids, body \in Bodies : UpdateTodo(id, body)
Toggle == \E id \in Ids : ToggleTodo(id)
Delete == \E id \in Ids : DeleteTodo(id)

Next ==
    \/ Create
    \/ ListTodos
    \/ Get
    \/ Update
    \/ Toggle
    \/ Delete

Spec == Init /\ [][Next]_vars

\* one client, the store clock advancing between the requests
ClockCreate == \E body \in ClockBodies : CreateTodo(body)
ClockUpdate == \E id \in Ids, body \in ClockBodies : UpdateTodo(id, body)

NextClock ==
    \/ Tick
    \/ ClockCreate
    \/ ListTodos
    \/ Get
    \/ ClockUpdate
    \/ Toggle
    \/ Delete

SpecClock == Init /\ [][NextClock]_vars

\* requests in flight together, each on its own connection, within one
\* second of the store clock
ConcCreate == \E body \in ConcBodies : CreateTodo(body)
ConcUpdate == \E p \in Procs, id \in Ids, body \in ConcBodies : UpdateBegin(p, id, body)
ConcToggle == \E p \in Procs, id \in Ids : ToggleBegin(p, id)
ConcWrite == \E p \in Procs : WriteEnd(p)

NextConc ==
    \/ ConcCreate
    \/ ListTodos
    \/ Get
    \/ ConcUpdate
    \/ ConcToggle
    \/ ConcWrite
    \/ Delete

SpecConc == Init /\ [][NextConc]_vars

\* ------------------------------------------------------------ properties
AllIdle == \A p \in Procs : Idle(p)
HasField(body) == body.title.some \/ body.completed.some
EmptyBody == [title |-> None, completed |-> None]
TrimmedOK(s) == StrLen(Strip(s)) >= MinLength /\ StrLen(Strip(s)) <= MaxLength

\* C1: every stored title is non-empty and not whitespace-only: its trimmed
\* form has 1..255 characters.
C1_StoredTitlesNonBlank ==
    \A id \in DOMAIN todos : TrimmedOK(todos[id].title)

\* C2: a toggle's SELECT and UPDATE act as one step, so no toggle is lost:
\* once every request has been answered, completed is the value set by the
\* last committed create or update, flipped once per toggle answered since.
C2_NoLostToggle ==
    AllIdle => \A id \in DOMAIN todos : ToBool(todos[id].completed) = expect[id]

\* C3: for every title t whose trimmed form has 1..255 characters and every
\* boolean c, create(t, c) is answered 201 with title = trim(t),
\* completed = c and created_at = updated_at, and a get of the new id
\* answers 200 with that same todo.
C3_CreateThenGet ==
    [][\A body \in Bodies :
          (/\ body.title.some
           /\ body.completed.some
           /\ TrimmedOK(body.title.val)
           /\ CreateTodo(body))
          => /\ resp'.status = 201
             /\ resp'.row.some
             /\ resp'.row.val.title = Strip(body.title.val)
             /\ resp'.row.val.completed = body.completed.val
             /\ resp'.row.val.created_at = resp'.row.val.updated_at
             /\ GetResult(todos', resp'.row.val.id) = <<200, resp'.row>>]_vars

\* C4, as stated: once DELETE of an id was answered 204, every later GET,
\* PATCH with at least one field, toggle and DELETE of that id is answered
\* 404, whatever was created in between.
C4_DeleteTerminalAnyPatch ==
    [][\A id \in deleted :
          /\ GetTodo(id) => resp'.status = 404
          /\ \A body \in Bodies :
                (HasField(body) /\ UpdateTodo(id, body)) => resp'.status = 404
          /\ ToggleTodo(id) => resp'.status = 404
          /\ DeleteTodo(id) => resp'.status = 404]_vars

\* C4, amended: once DELETE of an id was answered 204, every later GET,
\* PATCH whose body passes validation and has at least one field, toggle
\* and DELETE of that id is answered 404 and the id stays out of the table,
\* whatever was created in between.
C4_DeleteTerminal ==
    [][\A id \in deleted :
          /\ id \notin DOMAIN todos'
          /\ GetTodo(id) => resp'.status = 404
          /\ \A body \in Bodies :
                (HasField(body) /\ ValidUpdate(body) /\ UpdateTodo(id, body))
                => resp'.status = 404
          /\ ToggleTodo(id) => resp'.status = 404
          /\ DeleteTodo(id) => resp'.status = 404]_vars

\* C4 witness: a request on a deleted id was answered 404 after a later
\* todo had been created.
C4_Witness ==
    /\ resp.id \in deleted
    /\ resp.op \in {"get", "update", "toggle", "delete"}
    /\ resp.status = 404
    /\ seq > resp.id
    /\ todos /= <<>>

\* C5: a get, update with a valid field, toggle or delete ends with its
\* success status carrying the row, or with 404; it never ends in a 5xx,
\* also when the row is deleted between the check and the mutation.
C5_FoundOrNotFound ==
    (resp.op \in {"get", "update", "toggle", "delete"} /\ resp.status \notin {400, 422})
    => \/ resp.status = 404
       \/ resp.status = 204 /\ resp.op = "delete"
       \/ resp.status = 200 /\ resp.row.some

\* C6: a PATCH answered 200 changes only the supplied fields and updated_at
\* of its row: a title left out is kept, a completed left out is kept, the
\* id and created_at are kept, and every other row is unchanged.
C6_UpdateFrame ==
    [][\A id \in Ids :
          (resp'.op = "update" /\ resp'.id = id /\ resp'.status = 200)
          => \A body \in ClockBodies :
                UpdateTodo(id, body)
                => /\ DOMAIN todos' = DOMAIN todos
                   /\ \A j \in DOMAIN todos \ {id} : todos'[j] = todos[j]
                   /\ resp'.row.val.id = id
                   /\ todos'[id].created_at = todos[id].created_at
                   /\ ~body.title.some => todos'[id].title = todos[id].title
                   /\ ~body.completed.some
                      => todos'[id].completed = todos[id].completed
                   /\ body.title.some
                      => todos'[id].title = Strip(body.title.val)
                   /\ body.completed.some
                      => ToBool(todos'[id].completed) = body.completed.val
                   /\ seq' = seq]_vars

\* C6 witness: a PATCH was answered 200 for a row updated after its
\* creation, with another row in the table.
C6_Witness ==
    /\ resp.op = "update"
    /\ resp.status = 200
    /\ resp.row.val.updated_at > resp.row.val.created_at
    /\ Cardinality(DOMAIN todos) >= 2

\* C7: a PATCH with neither title nor completed is answered 400 for every
\* id, existing or not, and leaves the whole store unchanged, the target
\* row's updated_at included.
C7_EmptyPatch ==
    [][\A id \in Ids :
          (resp'.op = "update" /\ resp'.id = id /\ UpdateTodo(id, EmptyBody))
          => /\ resp'.status = 400
             /\ todos' = todos
             /\ seq' = seq]_vars

\* C7 witness: an empty PATCH on an existing row, sent after the row's last
\* update, was answered 400.
C7_Witness ==
    /\ resp.op = "update"
    /\ resp.status = 400
    /\ resp.id \in DOMAIN todos
    /\ clock > todos[resp.id].updated_at

\* C8: GET /todos never fails: it answers 200 with exactly the stored
\* todos, each once, in strictly descending id order.
C8_ListAll ==
    resp.op = "list"
    => /\ resp.status = 200
       /\ Len(resp.rows) = Cardinality(DOMAIN todos)
       /\ \A i \in 1..Len(resp.rows) :
             /\ resp.rows[i].id \in DOMAIN todos
             /\ resp.rows[i] = RowOut(resp.rows[i].id, todos[resp.rows[i].id])
       /\ \A i, j \in 1..Len(resp.rows) :
             i < j => resp.rows[i].id > resp.rows[j].id

\* C9: for every existing todo a toggle is answered 200 with completed the
\* negation of the stored value, title, id and created_at unchanged, and a
\* second toggle right after it restores the original completed.
C9_ToggleInvolution ==
    [][\A id \in DOMAIN todos :
          ToggleTodo(id)
          => /\ resp'.status = 200
             /\ resp'.row.val.completed = ~ToBool(todos[id].completed)
             /\ resp'.row.val.id = id
             /\ resp'.row.val.title = todos[id].title
             /\ resp'.row.val.created_at = todos[id].created_at
             /\ LET q == ToggleReq(todos', id)
                    t2 == UpdateStmt(todos', id, q.title, q.completed, clock)
                IN  t2[id].completed = todos[id].completed]_vars

\* C10: with a clock that never goes backwards every stored todo has
\* updated_at >= created_at; a create sets both to the insertion time, and
\* an update or toggle answered 200 sets updated_at to the current time,
\* never earlier than before, and leaves created_at alone.
C10_Timestamps ==
    [][/\ \A id \in DOMAIN todos' :
             todos'[id].updated_at >= todos'[id].created_at
       /\ (resp'.op = "create" /\ resp'.status /= 422
           /\ \E body \in ClockBodies : CreateTodo(body))
          => /\ todos'[resp'.id].created_at = clock
             /\ todos'[resp'.id].updated_at = clock
       /\ \A id \in Ids :
             (/\ resp'.op \in {"update", "toggle"}
              /\ resp'.id = id
              /\ resp'.status = 200
              /\ \/ ToggleTodo(id)
                 \/ \E body \in ClockBodies : UpdateTodo(id, body))
             => /\ todos'[id].updated_at = clock
                /\ todos'[id].updated_at >= todos[id].updated_at
                /\ todos'[id].created_at = todos[id].created_at]_vars

\* C10 witness: a row updated later than it was created.
C10_Witness ==
    \E id \in DOMAIN todos : todos[id].updated_at > todos[id].created_at

====
